---- MODULE Spec2Model ----
(***************************************************************************)
(* A model of the LevelDB R.E.P.L. of src/src/main.cpp: the tokenizer      *)
(* (ParseInput, SliceInput), the instruction table (GetInfo), the gates of *)
(* the session loop (main) and the handlers (the *Functor structs) acting  *)
(* on the single global `database` slot.                                   *)
(*                                                                         *)
(* A line is a sequence of one-character strings.  Indices are the 0-based *)
(* indices of the source; At(s, k) reads s[k].                             *)
(***************************************************************************)
EXTENDS Integers, Sequences, FiniteSets

VARIABLES
    pc,             \* position of the loop thread: "prompt", "scan", "dispatch", "call", "opening", "loop", "exited", "crashed"
    user_input,     \* main: std::string user_input
    i,              \* ParseInput: loop index
    pos,            \* ParseInput: start of the current word
    skipping,       \* ParseInput: flags.skipping
    erease_quotes,  \* ParseInput: flags.erease_quotes
    current,        \* ParseInput: the quote character that opened the run
    quote_start,    \* ParseInput: index of the quote character that opened the run
    result,         \* ParseInput: ArgsVector result
    instruction,    \* main: the instruction the first token was cast to
    args,           \* main: the tokens after the instruction
    database,       \* the global std::unique_ptr<leveldb::DB>: 0 is nullptr, else a handle
    dbpath,         \* the path the handle held by database was opened at
    prev_database,  \* history: the value of database when the handler of this line was entered
    live,           \* handles obtained from leveldb::DB::Open and not yet deleted
    disk,           \* what the collaborator stores: a set of <<path, key, value>>
    pending,        \* OpenFunctor: what leveldb::DB::Open answered, not yet bound to database
    written,        \* history: <<path, second token, third token>> of the last write line answered OK, per path and key
    out             \* what was printed since the last prompt, one record per report

vars == <<pc, user_input, i, pos, skipping, erease_quotes, current, quote_start,
          result, instruction, args, database, dbpath, prev_database, live, disk,
          pending, written, out>>

scanvars == <<i, pos, skipping, erease_quotes, current, quote_start, result>>
dbvars == <<database, dbpath, prev_database, live, disk, pending, written>>

----------------------------------------------------------------------------
(* Bounds of the model *)

\* longest line of the tokenizer specification
MaxLen == 4
\* longest free-form line typed at the prompt of the session specification
MaxShort == 3
\* most words after the instruction in a command line typed at the prompt
MaxArgs == 2
\* handles the collaborator can hand out
MaxHandles == 2

----------------------------------------------------------------------------
(* Characters and strings *)

\* size_t arithmetic wraps modulo 2^64; this stands in for it (it exceeds every
\* length of the model, which is all the code's arithmetic can observe)
SizeModulus == 1073741824

DQUOTE == "\""
SQUOTE == "'"
SPACE == " "
TAB == "\t"

Quotes == {DQUOTE, SQUOTE}

At(s, k) == s[k + 1]

Min(a, b) == IF a < b THEN a ELSE b

\* std::string_view::substr(start, n): throws when start > size, clamps n
OutOfRange == <<"std::out_of_range">>
Substr(s, start, n) ==
    IF start > Len(s) THEN OutOfRange
    ELSE SubSeq(s, start + 1, start + Min(n, Len(s) - start))

\* all sequences over S of length 1..n
RECURSIVE SeqsUpTo(_, _)
SeqsUpTo(S, n) ==
    IF n = 0 THEN {<<>>}
    ELSE LET shorter == SeqsUpTo(S, n - 1)
         IN  shorter \cup {Append(s, c) : s \in shorter, c \in S}

NonEmptySeqsUpTo(S, n) == SeqsUpTo(S, n) \ {<<>>}

----------------------------------------------------------------------------
(* The instruction table *)

Instruction == {"help", "exit", "open", "close", "read", "write", "dump"}

\* enchantum::to_string(inst)
to_string(inst) ==
    CASE inst = "help"  -> <<"h", "e", "l", "p">>
      [] inst = "exit"  -> <<"e", "x", "i", "t">>
      [] inst = "open"  -> <<"o", "p", "e", "n">>
      [] inst = "close" -> <<"c", "l", "o", "s", "e">>
      [] inst = "read"  -> <<"r", "e", "a", "d">>
      [] inst = "write" -> <<"w", "r", "i", "t", "e">>
      [] inst = "dump"  -> <<"d", "u", "m", "p">>

\* enchantum::cast<Instruction>(token): the enumerator of exactly that name, or nullopt
CastByPrefix(token) ==
    LET starts(inst) == /\ Len(token) >= Len(to_string(inst))
                        /\ SubSeq(token, 1, Len(to_string(inst))) = to_string(inst)
    IN  IF \E inst \in Instruction : starts(inst)
        THEN CHOOSE inst \in Instruction : starts(inst)
        ELSE "nullopt"
Cast(token) ==
    IF \E inst \in Instruction : to_string(inst) = token
    THEN CHOOSE inst \in Instruction : to_string(inst) = token
    ELSE "nullopt"

\* GetInfo(inst).args.size
ArgsSizeNoWrite(inst) ==
    CASE inst \in {"open", "read", "write"} -> 1
      [] OTHER -> 0
ArgsSize(inst) ==
    CASE inst \in {"open", "read"} -> 1
      [] inst = "write" -> 2
      [] OTHER -> 0

\* GetInfo(inst).args.data.empty()
ArgsDataEmptyOpen(inst) == inst \notin {"read", "write"}
ArgsDataEmpty(inst) == inst \notin {"open", "read", "write"}

\* GetInfo(inst).require_db
RequireDbNoClose(inst) == inst \in {"read", "write", "dump"}
RequireDbNoRead(inst) == inst \in {"close", "write", "dump"}
RequireDb(inst) == inst \in {"close", "read", "write", "dump"}

----------------------------------------------------------------------------
(* The tokenizer *)

\* SliceInput(input, start, end, erease_quotes)
SliceInput(input, start, end, erease) ==
    LET length == end - start
    IN  IF erease
        THEN Substr(input, start + 1, (length - 2) % SizeModulus)
        ELSE Substr(input, start, length)

\* char current; size_t quote_start; are declared without a value: these mark a
\* value that is indeterminate (never read before it is set)
Undef == "indeterminate"
UndefIndex == -1

\* ParseInput: the locals as declared, before the loop
StartScan ==
    /\ i' = 0
    /\ pos' = 0
    /\ skipping' = FALSE
    /\ erease_quotes' = FALSE
    /\ current' = Undef
    /\ quote_start' = UndefIndex
    /\ result' = <<>>

Scanning == pc = "scan" /\ i < Len(user_input)

\* a quote character outside a quoted run opens one: quote_start = i
QuoteStartOfWord(col) == pos
QuoteStart(col) == col

ScanOpenQuote ==
    /\ Scanning
    /\ At(user_input, i) \in Quotes
    /\ ~skipping
    /\ quote_start' = QuoteStart(i)
    /\ current' = At(user_input, i)
    /\ skipping' = TRUE
    /\ i' = i + 1
    /\ UNCHANGED <<pc, user_input, pos, erease_quotes, result, instruction, args, out>>
    /\ UNCHANGED dbvars

\* inside a quoted run, does this quote character close it?
ClosesAny(c) == TRUE
Closes(c) == current = c

\* the other quote character inside a quoted run: continue
ScanOtherQuote ==
    /\ Scanning
    /\ At(user_input, i) \in Quotes
    /\ skipping
    /\ ~Closes(At(user_input, i))
    /\ i' = i + 1
    /\ UNCHANGED <<pc, user_input, pos, skipping, erease_quotes, current, quote_start,
                   result, instruction, args, out>>
    /\ UNCHANGED dbvars

\* the same quote character inside a quoted run closes it
ScanCloseQuote ==
    /\ Scanning
    /\ At(user_input, i) \in Quotes
    /\ skipping
    /\ Closes(At(user_input, i))
    /\ erease_quotes' = TRUE
    /\ skipping' = FALSE
    /\ i' = i + 1
    /\ UNCHANGED <<pc, user_input, pos, current, quote_start, result, instruction, args, out>>
    /\ UNCHANGED dbvars

\* if (input[i] != 0x20 || flags.skipping) continue;
IsBoundaryInQuotes(c, skip) == c = SPACE
IsBoundaryOrTab(c, skip) == c \in {SPACE, TAB} /\ ~skip
IsBoundary(c, skip) == c = SPACE /\ ~skip

ScanSkip ==
    /\ Scanning
    /\ At(user_input, i) \notin Quotes
    /\ ~IsBoundary(At(user_input, i), skipping)
    /\ i' = i + 1
    /\ UNCHANGED <<pc, user_input, pos, skipping, erease_quotes, current, quote_start,
                   result, instruction, args, out>>
    /\ UNCHANGED dbvars

\* flags.erease_quotes = false; after the word is pushed
EreaseQuotesKept == erease_quotes
EreaseQuotesCleared == FALSE

\* an unquoted space: push the word, start the next one
ScanSpace ==
    /\ Scanning
    /\ At(user_input, i) \notin Quotes
    /\ IsBoundary(At(user_input, i), skipping)
    /\ result' = Append(result, SliceInput(user_input, pos, i, erease_quotes))
    /\ pos' = i + 1
    /\ erease_quotes' = EreaseQuotesCleared
    /\ i' = i + 1
    /\ UNCHANGED <<pc, user_input, skipping, current, quote_start, instruction, args, out>>
    /\ UNCHANGED dbvars

\* PrintSyntaxError(input, pos, msg): the caret is printed in column pos
SyntaxError(col) == [kind |-> "syntax", column |-> col]

\* the scan ended inside a quoted run: report, return nullopt; main continues
ParseFail ==
    /\ pc = "scan"
    /\ i = Len(user_input)
    /\ skipping
    /\ out' = Append(out, SyntaxError(quote_start))
    /\ result' = <<>>
    /\ pc' = "loop"
    /\ UNCHANGED <<user_input, i, pos, skipping, erease_quotes, current, quote_start,
                   instruction, args>>
    /\ UNCHANGED dbvars

\* the scan ended outside a quoted run: push the trailing word, return result
ParseDone ==
    /\ pc = "scan"
    /\ i = Len(user_input)
    /\ ~skipping
    /\ result' = Append(result, SliceInput(user_input, pos, Len(user_input), erease_quotes))
    /\ pc' = "dispatch"
    /\ UNCHANGED <<user_input, i, pos, skipping, erease_quotes, current, quote_start,
                   instruction, args, out>>
    /\ UNCHANGED dbvars

----------------------------------------------------------------------------
(* What the user can type *)

\* the tokenizer is checked on every line over this alphabet, up to MaxLen
Alphabet == {"a", SPACE, SQUOTE, DQUOTE, TAB}
TokLines == NonEmptySeqsUpTo(Alphabet, MaxLen)

\* at the prompt: an instruction name followed by up to MaxArgs words ...
ArgWords == {<<"k">>, <<"v">>}

RECURSIVE Join(_)
Join(words) ==
    IF Len(words) = 1 THEN words[1]
    ELSE words[1] \o <<SPACE>> \o Join(Tail(words))

CmdLines ==
    {Join(<<to_string(inst)>> \o a) : inst \in Instruction, a \in SeqsUpTo(ArgWords, MaxArgs)}

\* ... or any short line over these characters
ShortAlphabet == {"a", SPACE, SQUOTE, DQUOTE}
ShortLines == NonEmptySeqsUpTo(ShortAlphabet, MaxShort)

\* ... or a word that is almost an instruction name: its first letter in upper
\* case, one more letter, one letter less
Upper(c) ==
    CASE c = "h" -> "H"
      [] c = "e" -> "E"
      [] c = "o" -> "O"
      [] c = "c" -> "C"
      [] c = "r" -> "R"
      [] c = "w" -> "W"
      [] c = "d" -> "D"

NearMissLines ==
    UNION {{<<Upper(name[1])>> \o Tail(name),
            Append(name, "a"),
            SubSeq(name, 1, Len(name) - 1)} : name \in {to_string(inst) : inst \in Instruction}}

InputLines == CmdLines \cup ShortLines \cup NearMissLines

----------------------------------------------------------------------------
(* The session loop: main *)

\* for (;;) { user_input.clear(); print(">>> "); : the previous iteration's
\* locals are gone
Prompt ==
    /\ pc = "loop"
    /\ user_input' = <<>>
    /\ out' = <<>>
    /\ instruction' = "nullopt"
    /\ args' = <<>>
    /\ prev_database' = database
    /\ StartScan
    /\ pc' = "prompt"
    /\ UNCHANGED <<database, dbpath, live, disk, pending, written>>

\* getline reads an empty line: continue
ReadEmptyLine ==
    /\ pc = "prompt"
    /\ pc' = "loop"
    /\ UNCHANGED <<user_input, instruction, args, out>>
    /\ UNCHANGED scanvars
    /\ UNCHANGED dbvars

\* getline reads a non-empty line: ParseInput(user_input) starts
ReadLine ==
    /\ pc = "prompt"
    /\ \E line \in InputLines : user_input' = line
    /\ pc' = "scan"
    /\ UNCHANGED <<instruction, args, out>>
    /\ UNCHANGED scanvars
    /\ UNCHANGED dbvars

UnknownInstruction(token) == [kind |-> "unknown", token |-> token]
InvalidStateError(inst, requirement) ==
    [kind |-> "requires", inst |-> inst, requirement |-> requirement]
SizeMismatchError(inst, expected, actual) ==
    [kind |-> "expected", inst |-> inst, expected |-> expected, actual |-> actual]

\* the gates of main, in the order of the code, for the instruction cast from
\* the first token, n remaining arguments and the database slot db
GateArityFirst(inst, n, db) ==
    IF inst = "nullopt" THEN "unknown"
    ELSE IF ~ArgsDataEmpty(inst) /\ n # ArgsSize(inst) THEN "mismatch"
    ELSE IF RequireDb(inst) /\ db = 0 THEN "requires"
    ELSE "call"
Gate(inst, n, db) ==
    IF inst = "nullopt" THEN "unknown"
    ELSE IF RequireDb(inst) /\ db = 0 THEN "requires"
    ELSE IF ~ArgsDataEmpty(inst) /\ n # ArgsSize(inst) THEN "mismatch"
    ELSE "call"

Dispatching(outcome) ==
    /\ pc = "dispatch"
    /\ Gate(Cast(result[1]), Len(result) - 1, database) = outcome

\* if (!instruction) { println("Unknown instruction ..."); continue; }
DispatchUnknownExits ==
    /\ Dispatching("unknown")
    /\ out' = Append(out, UnknownInstruction(result[1]))
    /\ pc' = "exited"
    /\ UNCHANGED <<user_input, instruction, args>>
    /\ UNCHANGED scanvars
    /\ UNCHANGED dbvars

DispatchUnknown ==
    /\ Dispatching("unknown")
    /\ out' = Append(out, UnknownInstruction(result[1]))
    /\ pc' = "loop"
    /\ UNCHANGED <<user_input, instruction, args>>
    /\ UNCHANGED scanvars
    /\ UNCHANGED dbvars

\* if (info.require_db && database == nullptr) { PrintInvalidStateError; continue; }
DispatchRequires ==
    /\ Dispatching("requires")
    /\ instruction' = Cast(result[1])
    /\ args' = Tail(result)
    /\ out' = Append(out, InvalidStateError(instruction', "Opened Database"))
    /\ pc' = "loop"
    /\ UNCHANGED user_input
    /\ UNCHANGED scanvars
    /\ UNCHANGED dbvars

\* if (!info.args.data.empty() && args.size() != info.args.size) { ...; continue; }
DispatchMismatch ==
    /\ Dispatching("mismatch")
    /\ instruction' = Cast(result[1])
    /\ args' = Tail(result)
    /\ out' = Append(out, SizeMismatchError(instruction', ArgsSize(instruction'), Len(args')))
    /\ pc' = "loop"
    /\ UNCHANGED user_input
    /\ UNCHANGED scanvars
    /\ UNCHANGED dbvars

\* info.impl(args): the handler is entered
DispatchCall ==
    /\ Dispatching("call")
    /\ instruction' = Cast(result[1])
    /\ args' = Tail(result)
    /\ prev_database' = database
    /\ pc' = "call"
    /\ UNCHANGED <<user_input, out, database, dbpath, live, disk, pending, written>>
    /\ UNCHANGED scanvars

----------------------------------------------------------------------------
(* The storage collaborator (leveldb), as far as the handlers use it *)

Handles == 1 .. MaxHandles

\* the handle a successful leveldb::DB::Open returns: one that is not live
NewHandle(lv) == CHOOSE h \in Handles \ lv : \A g \in Handles \ lv : h <= g

NoPath == <<>>

\* Put(key, value) on the store at path
Put(d, path, key, value) ==
    {e \in d : ~(e[1] = path /\ e[2] = key)} \cup {<<path, key, value>>}

Has(d, path, key) == \E e \in d : e[1] = path /\ e[2] = key
Get(d, path, key) == (CHOOSE e \in d : e[1] = path /\ e[2] = key)[3]

\* the order of leveldb's BytewiseComparator on the characters of the model
Byte(c) ==
    CASE c = TAB -> 9
      [] c = SPACE -> 32
      [] c = DQUOTE -> 34
      [] c = SQUOTE -> 39
      [] c = "a" -> 97
      [] c = "k" -> 107
      [] c = "v" -> 118

RECURSIVE BytewiseLess(_, _)
BytewiseLess(a, b) ==
    IF b = <<>> THEN FALSE
    ELSE IF a = <<>> THEN TRUE
    ELSE IF Byte(a[1]) # Byte(b[1]) THEN Byte(a[1]) < Byte(b[1])
    ELSE BytewiseLess(Tail(a), Tail(b))

\* the entries of the store at path, in iteration order
RECURSIVE Iterate(_)
Iterate(entries) ==
    IF entries = {} THEN <<>>
    ELSE LET first == CHOOSE e \in entries :
                          \A f \in entries \ {e} : BytewiseLess(e[2], f[2])
         IN  <<first>> \o Iterate(entries \ {first})

Ok == [kind |-> "OK"]
BackendError(op, a, status) == [kind |-> "error", op |-> op, args |-> a, status |-> status]
Value(v) == [kind |-> "value", value |-> v]
DumpLine(k, v) == [kind |-> "dump", key |-> k, value |-> v]
Help == [kind |-> "help"]

----------------------------------------------------------------------------
(* The handlers *)

Calling(inst) == pc = "call" /\ instruction = inst

\* std::unique_ptr::reset() on the slot db: the handle it held is deleted
Reset(lv, db) == lv \ {db}

\* std::out_ptr(database): the temporary resets database when it is constructed,
\* before leveldb::DB::Open runs
OutPtrKeepsPrevious(lv, db) == lv
OutPtr(lv, db) == Reset(lv, db)

\* a null dereference or an access past the end of args ends the process
Crash ==
    /\ pc' = "crashed"
    /\ UNCHANGED <<user_input, instruction, args, out>>
    /\ UNCHANGED scanvars
    /\ UNCHANGED dbvars

PrintHelpFunctor ==
    /\ Calling("help")
    /\ out' = Append(out, Help)
    /\ pc' = "loop"
    /\ UNCHANGED <<user_input, instruction, args>>
    /\ UNCHANGED scanvars
    /\ UNCHANGED dbvars

\* database.reset(); std::exit(EXIT_SUCCESS);
ExitFunctorReturns ==
    /\ Calling("exit")
    /\ live' = Reset(live, database)
    /\ database' = 0
    /\ dbpath' = NoPath
    /\ pc' = "loop"
    /\ UNCHANGED <<user_input, instruction, args, out, prev_database, disk, pending, written>>
    /\ UNCHANGED scanvars

ExitFunctor ==
    /\ Calling("exit")
    /\ live' = Reset(live, database)
    /\ database' = 0
    /\ dbpath' = NoPath
    /\ pc' = "exited"
    /\ UNCHANGED <<user_input, instruction, args, out, prev_database, disk, pending, written>>
    /\ UNCHANGED scanvars

\* database.reset(); println("OK");
CloseFunctor ==
    /\ Calling("close")
    /\ live' = Reset(live, database)
    /\ database' = 0
    /\ dbpath' = NoPath
    /\ out' = Append(out, Ok)
    /\ pc' = "loop"
    /\ UNCHANGED <<user_input, instruction, args, prev_database, disk, pending, written>>
    /\ UNCHANGED scanvars

DumpFunctor ==
    /\ Calling("dump")
    /\ IF database = 0 THEN Crash
       ELSE /\ LET entries == Iterate({e \in disk : e[1] = dbpath})
               IN  out' = out \o [n \in 1 .. Len(entries) |->
                                      DumpLine(entries[n][2], entries[n][3])]
            /\ pc' = "loop"
            /\ UNCHANGED <<user_input, instruction, args>>
            /\ UNCHANGED scanvars
            /\ UNCHANGED dbvars

\* what leveldb::DB::Open can answer
OpenStatus == {"OK", "IO error"}

\* what is printed after a failed open: the error, and then (there is no return) OK
OpenFailureOutput(path, status) == <<BackendError("open", <<path>>, status), Ok>>

\* what leveldb::DB::Open stores through its DB** argument: nullptr first, and
\* the new handle on success only
OpenResultAlways(status, handle) == handle
OpenResult(status, handle) == IF status = "OK" THEN handle ELSE 0

NoPending == [status |-> "none", handle |-> 0]

\* the out_ptr temporary is constructed (database is reset) and
\* leveldb::DB::Open runs: the collaborator has made the handle, or failed
OpenFunctor ==
    /\ Calling("open")
    /\ IF Len(args) < 1 THEN Crash
       ELSE \E status \in OpenStatus :
              LET released == OutPtr(live, database)
                  handle == OpenResult(status, NewHandle(released))
              IN  /\ database' = 0
                  /\ dbpath' = NoPath
                  /\ live' = released \cup ({handle} \ {0})
                  /\ pending' = [status |-> status, handle |-> handle]
                  /\ pc' = "opening"
                  /\ UNCHANGED <<user_input, instruction, args, out, prev_database, disk,
                                 written>>
                  /\ UNCHANGED scanvars

\* the handle reaches database (through the DB** or when the out_ptr temporary
\* is destroyed), and the outcome is printed
OpenBind ==
    /\ pc = "opening"
    /\ database' = pending.handle
    /\ dbpath' = (IF pending.handle # 0 THEN args[1] ELSE NoPath)
    /\ out' = (IF pending.status = "OK" THEN Append(out, Ok)
               ELSE out \o OpenFailureOutput(args[1], pending.status))
    /\ pending' = NoPending
    /\ pc' = "loop"
    /\ UNCHANGED <<user_input, instruction, args, prev_database, live, disk, written>>
    /\ UNCHANGED scanvars

\* what Put can answer
WriteStatus == {"OK", "IO error"}

\* auto key = args[0]; auto value = args[1];
WriteKey(a) == a[1]
WriteValueIsKey(a) == a[1]
WriteValue(a) == a[2]

WriteFunctor ==
    /\ Calling("write")
    /\ IF Len(args) < 2 \/ database = 0 THEN Crash
       ELSE \E status \in WriteStatus :
              LET key == WriteKey(args)
                  value == WriteValue(args)
              IN  /\ IF status = "OK"
                     THEN /\ disk' = Put(disk, dbpath, key, value)
                          /\ written' = Put(written, dbpath, result[2], result[3])
                          /\ out' = Append(out, Ok)
                     ELSE /\ disk' = disk
                          /\ written' = written
                          /\ out' = Append(out, BackendError("write", <<key, value>>, status))
                  /\ pc' = "loop"
                  /\ UNCHANGED <<user_input, instruction, args, database, dbpath,
                                 prev_database, live, pending>>
                  /\ UNCHANGED scanvars

\* what Get can answer for a key
ReadStatus(d, path, key) == IF Has(d, path, key) THEN {"OK", "IO error"} ELSE {"NotFound", "IO error"}

ReadFunctor ==
    /\ Calling("read")
    /\ IF Len(args) < 1 \/ database = 0 THEN Crash
       ELSE \E status \in ReadStatus(disk, dbpath, args[1]) :
              LET key == args[1]
              IN  /\ IF status = "OK"
                     THEN out' = Append(out, Value(Get(disk, dbpath, key)))
                     ELSE out' = Append(out, BackendError("read", <<key>>, status))
                  /\ pc' = "loop"
                  /\ UNCHANGED <<user_input, instruction, args>>
                  /\ UNCHANGED scanvars
                  /\ UNCHANGED dbvars

----------------------------------------------------------------------------
(* The specifications *)

Idle ==
    /\ i = 0
    /\ pos = 0
    /\ skipping = FALSE
    /\ erease_quotes = FALSE
    /\ current = Undef
    /\ quote_start = UndefIndex
    /\ result = <<>>
    /\ instruction = "nullopt"
    /\ args = <<>>
    /\ database = 0
    /\ dbpath = NoPath
    /\ prev_database = 0
    /\ live = {}
    /\ disk = {}
    /\ pending = NoPending
    /\ written = {}
    /\ out = <<>>

\* the session: main, from its first prompt
Init ==
    /\ pc = "prompt"
    /\ user_input = <<>>
    /\ Idle

Next ==
    \/ Prompt
    \/ ReadEmptyLine
    \/ ReadLine
    \/ ScanOpenQuote
    \/ ScanOtherQuote
    \/ ScanCloseQuote
    \/ ScanSkip
    \/ ScanSpace
    \/ ParseFail
    \/ ParseDone
    \/ DispatchUnknown
    \/ DispatchRequires
    \/ DispatchMismatch
    \/ DispatchCall
    \/ PrintHelpFunctor
    \/ ExitFunctor
    \/ CloseFunctor
    \/ DumpFunctor
    \/ OpenFunctor
    \/ OpenBind
    \/ WriteFunctor
    \/ ReadFunctor

Spec == Init /\ [][Next]_vars

\* signal(SIGINT, ...): at any point of main the handler prints its notice and
\* runs ExitFunctor: database.reset(); std::exit(EXIT_SUCCESS);
UserInterrupt == [kind |-> "interrupt"]

Interrupt ==
    /\ pc \notin {"exited", "crashed"}
    /\ out' = Append(out, UserInterrupt)
    /\ live' = Reset(live, database)
    /\ database' = 0
    /\ dbpath' = NoPath
    /\ pc' = "exited"
    /\ UNCHANGED <<user_input, instruction, args, prev_database, disk, pending, written>>
    /\ UNCHANGED scanvars

NextInt == Next \/ Interrupt

\* the session with the interrupt signal
SpecInt == Init /\ [][NextInt]_vars

\* the steps main takes by itself: all but the arrival of a line
Step ==
    \/ Prompt
    \/ ScanOpenQuote
    \/ ScanOtherQuote
    \/ ScanCloseQuote
    \/ ScanSkip
    \/ ScanSpace
    \/ ParseFail
    \/ ParseDone
    \/ DispatchUnknown
    \/ DispatchRequires
    \/ DispatchMismatch
    \/ DispatchCall
    \/ PrintHelpFunctor
    \/ ExitFunctor
    \/ CloseFunctor
    \/ DumpFunctor
    \/ OpenFunctor
    \/ OpenBind
    \/ WriteFunctor
    \/ ReadFunctor

\* the session without interrupt: a running process keeps running
SpecFair == Spec /\ WF_vars(Step)

\* the tokenizer alone: ParseInput applied to every line of TokLines
InitTok ==
    /\ pc = "scan"
    /\ user_input \in TokLines
    /\ Idle

NextTok ==
    \/ ScanOpenQuote
    \/ ScanOtherQuote
    \/ ScanCloseQuote
    \/ ScanSkip
    \/ ScanSpace
    \/ ParseFail
    \/ ParseDone

SpecTok == InitTok /\ [][NextTok]_vars

----------------------------------------------------------------------------
(* The claims about the dispatcher and the session state (under Spec) *)

NeedsOpenSession == {"close", "read", "write", "dump"}

Reports == {out[n] : n \in DOMAIN out}

\* a line was tokenized and its first token resolved to inst; the loop is at
\* the handler (pc = "call") or back at the top of the loop
Dispatched(inst) ==
    pc \in {"call", "opening", "loop", "exited", "crashed"} /\ instruction = inst

\* C1: the handler of close, read, write or dump is never entered while the
\* database slot is empty; such a line gets the one report "<inst> requires
\* Opened Database" and the slot stays empty.
C1_NoHandlerWhileClosed ==
    \A inst \in NeedsOpenSession :
        /\ (pc = "call" /\ instruction = inst) => database # 0
        /\ (Dispatched(inst) /\ prev_database = 0) =>
               /\ pc = "loop"
               /\ out = <<InvalidStateError(inst, "Opened Database")>>
               /\ database = 0
               /\ live = {}

C1_Witness ==
    /\ pc = "loop"
    /\ instruction = "read"
    /\ Len(args) = 1
    /\ database = 0
    /\ out = <<InvalidStateError("read", "Opened Database")>>

\* the arity table of the specification
FixedArity(inst) ==
    CASE inst \in {"help", "exit", "close", "dump"} -> 0
      [] inst \in {"open", "read"} -> 1
      [] inst = "write" -> 2

\* the precondition gate passed for the dispatched instruction
PreconditionPassed(inst) == inst \notin NeedsOpenSession \/ prev_database # 0

\* C2 as stated: for each of the seven commands, a line that passes the
\* precondition gate with a number of arguments other than the arity gets the
\* arity-mismatch report and its handler is not entered.
C2_ArityAllSeven ==
    \A inst \in Instruction :
        (Dispatched(inst) /\ PreconditionPassed(inst) /\ Len(args) # FixedArity(inst)) =>
            /\ pc = "loop"
            /\ out = <<SizeMismatchError(inst, FixedArity(inst), Len(args))>>

\* C2 as amended: that holds for open, read and write; for help, exit, close
\* and dump the argument count is not checked: no arity mismatch is ever
\* reported for them and the handler is entered whatever the count.
C2_ArityWhereArgumentsNamed ==
    /\ \A inst \in {"open", "read", "write"} :
           (Dispatched(inst) /\ PreconditionPassed(inst) /\ Len(args) # FixedArity(inst)) =>
               /\ pc = "loop"
               /\ out = <<SizeMismatchError(inst, FixedArity(inst), Len(args))>>
               /\ database = prev_database
    /\ \A inst \in {"help", "exit", "close", "dump"} :
           (Dispatched(inst) /\ PreconditionPassed(inst)) =>
               /\ \A r \in Reports : r.kind # "expected"
               /\ inst = "help" /\ pc = "loop" => out = <<Help>>
               /\ inst = "close" /\ pc = "loop" => out = <<Ok>> /\ database = 0
               /\ inst = "exit" => pc \in {"call", "exited"}

C2_Witness ==
    /\ pc = "loop"
    /\ instruction = "write"
    /\ prev_database # 0
    /\ out = <<SizeMismatchError("write", 2, 1)>>

\* C3: the gates apply in the order lookup, precondition, arity, and the line
\* that fails one gets exactly the report of the first gate it fails: an
\* unknown first token only the unknown-instruction report, a session-requiring
\* instruction while closed only the precondition report whatever its argument
\* count, and only then the arity report.
C3_GateOrder ==
    (pc \in {"call", "opening", "loop"} /\ result # <<>>) =>
        LET token == result[1]
            known == \E inst \in Instruction : to_string(inst) = token
            n == Len(result) - 1
        IN  IF ~known
            THEN pc = "loop" /\ out = <<UnknownInstruction(token)>>
            ELSE IF instruction \in NeedsOpenSession /\ prev_database = 0
            THEN pc = "loop" /\ out = <<InvalidStateError(instruction, "Opened Database")>>
            ELSE IF instruction \in {"open", "read", "write"} /\ n # FixedArity(instruction)
            THEN pc = "loop" /\ out = <<SizeMismatchError(instruction, FixedArity(instruction), n)>>
            ELSE \A r \in Reports : r.kind \notin {"unknown", "requires", "expected"}

C3_Witness ==
    /\ pc = "loop"
    /\ instruction = "write"
    /\ Len(args) = 1
    /\ database = 0
    /\ out = <<InvalidStateError("write", "Opened Database")>>

\* C4: after an open that the collaborator fails, the database slot holds what
\* it held before the open, empty or not.
C4_FailedOpenKeepsSession ==
    (pc = "loop" /\ instruction = "open" /\ \E r \in Reports : r.kind = "error") =>
        database = prev_database

\* C5: at most one handle is live at any time, and it is the one the database
\* slot holds; after a successful open issued while a handle was bound, the
\* slot holds the handle opened at the new path and no other handle is live.
C5_AtMostOneHandle ==
    /\ Cardinality(live) <= 1
    /\ live = {database, pending.handle} \ {0}
    /\ (pc = "loop" /\ instruction = "open" /\ prev_database # 0 /\ out = <<Ok>>) =>
           /\ database # 0
           /\ dbpath = args[1]

C5_Witness ==
    /\ pc = "loop"
    /\ instruction = "open"
    /\ prev_database # 0
    /\ out = <<Ok>>
    /\ live = {database}

ErrorKinds == {"unknown", "requires", "expected", "syntax", "error"}

\* C6 as stated: close while closed reports no error and leaves the slot
\* empty; close while open releases the handle and empties the slot.
C6_CloseIdempotent ==
    Dispatched("close") =>
        /\ pc # "crashed"
        /\ pc = "loop" => /\ \A r \in Reports : r.kind \notin ErrorKinds
                          /\ database = 0
                          /\ live = {}

\* C6 as amended: close while closed is stopped at the precondition gate, which
\* reports "close requires Opened Database"; the handler is not entered,
\* nothing crashes and the slot stays empty.  close while open releases the
\* handle, empties the slot and reports OK.
C6_CloseWhileClosedRejected ==
    Dispatched("close") =>
        /\ pc # "crashed"
        /\ prev_database = 0 =>
               /\ pc = "loop"
               /\ out = <<InvalidStateError("close", "Opened Database")>>
               /\ database = 0
               /\ live = {}
        /\ (prev_database # 0 /\ pc = "loop") =>
               /\ out = <<Ok>>
               /\ database = 0
               /\ live = {}

C6_Witness ==
    /\ pc = "loop"
    /\ instruction = "close"
    /\ prev_database = 0
    /\ out = <<InvalidStateError("close", "Opened Database")>>

----------------------------------------------------------------------------
(* The quoting rules, stated on the line as a whole *)

None == "none"

\* the quote character of the quoted run that is open after the first n
\* characters of s, or None
RECURSIVE OpenQuoteAfter(_, _)
OpenQuoteAfter(s, n) ==
    IF n = 0 THEN None
    ELSE LET q == OpenQuoteAfter(s, n - 1)
             c == s[n]
         IN  IF q = None THEN (IF c \in Quotes THEN c ELSE None)
             ELSE IF c = q THEN None
             ELSE q

Balanced(s) == OpenQuoteAfter(s, Len(s)) = None

\* the 0-based indices of the unquoted spaces of s
Boundaries(s) == {k \in 0 .. Len(s) - 1 : s[k + 1] = SPACE /\ OpenQuoteAfter(s, k) = None}

\* the end of the j-th word of s (the index of the j-th unquoted space, or the
\* length of s) and its start
WordEnd(s, j) ==
    LET B == Boundaries(s)
    IN  IF j > Cardinality(B) THEN Len(s)
        ELSE CHOOSE k \in B : Cardinality({b \in B : b < k}) = j - 1
WordStart(s, j) == IF j = 1 THEN 0 ELSE WordEnd(s, j - 1) + 1
Word(s, j) == SubSeq(s, WordStart(s, j) + 1, WordEnd(s, j))
WordCount(s) == Cardinality(Boundaries(s)) + 1

\* w without its n-th character
Without(w, n) == SubSeq(w, 1, n - 1) \o SubSeq(w, n + 1, Len(w))

\* a quoted run closed in the word w (w starts and ends outside quotes)
HasClosedRun(w) == \E n \in 1 .. Len(w) : w[n] \in Quotes

\* w without its outermost quote characters: the one that opens its first
\* quoted run and the one that closes its last
StripOutermost(w) ==
    LET opener == CHOOSE n \in 1 .. Len(w) :
                      w[n] \in Quotes /\ \A m \in 1 .. n - 1 : w[m] \notin Quotes
        closer == CHOOSE n \in 1 .. Len(w) :
                      /\ OpenQuoteAfter(w, n - 1) # None
                      /\ OpenQuoteAfter(w, n) = None
                      /\ \A m \in n + 1 .. Len(w) :
                             ~(OpenQuoteAfter(w, m - 1) # None /\ OpenQuoteAfter(w, m) = None)
    IN  Without(Without(w, closer), opener)

\* the index of the quote character that opened the run still open at the end
\* of the unbalanced line s
UnmatchedQuote(s) ==
    CHOOSE c \in 0 .. Len(s) - 1 :
        /\ s[c + 1] \in Quotes
        /\ OpenQuoteAfter(s, c) = None
        /\ \A n \in c + 1 .. Len(s) : OpenQuoteAfter(s, n) = s[c + 1]

----------------------------------------------------------------------------
(* The claims about the tokenizer (under SpecTok, and C10 under Spec) *)

Parsed == pc = "dispatch"

\* C7 as stated: on every non-empty line with balanced quotes the scan ends
\* with at least one token, the first of which is the line up to its first
\* unquoted space (the whole line when there is none).
C7_FirstTokenIsPrefix ==
    /\ pc = "scan" => i <= Len(user_input) /\ ENABLED NextTok
    /\ (Balanced(user_input) /\ pc # "scan") => Parsed
    /\ Parsed => /\ Len(result) >= 1
                 /\ result[1] = Word(user_input, 1)

\* C7 as amended: the first token is that substring when no quoted run closed
\* in it, and that substring without its first and its last character when
\* one did.
C7_FirstToken ==
    /\ pc = "scan" => i <= Len(user_input) /\ ENABLED NextTok
    /\ (Balanced(user_input) /\ pc # "scan") => Parsed
    /\ Parsed => /\ Len(result) >= 1
                 /\ LET w == Word(user_input, 1)
                    IN  result[1] = IF HasClosedRun(w) THEN SubSeq(w, 2, Len(w) - 1) ELSE w

C7_Witness ==
    /\ Parsed
    /\ user_input = <<SQUOTE, "a", SQUOTE, SPACE>>
    /\ result = << <<"a">>, <<>> >>

\* C8: the token of a word in which a quoted run closed is the word without
\* its outermost quote characters, wherever in the word they are; the token of
\* a word in which none closed is the word.
C8_QuotesStripped ==
    Parsed =>
        /\ Len(result) = WordCount(user_input)
        /\ \A j \in 1 .. Len(result) :
               LET w == Word(user_input, j)
               IN  result[j] = IF HasClosedRun(w) THEN StripOutermost(w) ELSE w

\* C9: inside a quoted run, a step over the other quote character or over a
\* space changes neither the in-quote state, nor the recorded opening quote,
\* nor the tokens: the run stays open and the character stays in the word;
\* and every character strictly inside a closed run is in the word's token.
C9_InsideRunStep ==
    (/\ pc = "scan"
     /\ skipping
     /\ i < Len(user_input)
     /\ At(user_input, i) \in ((Quotes \ {current}) \cup {SPACE}))
    => /\ pc' = "scan"
       /\ i' = i + 1
       /\ skipping'
       /\ current' = current
       /\ quote_start' = quote_start
       /\ erease_quotes' = erease_quotes
       /\ pos' = pos
       /\ result' = result

C9_InsideRunKept ==
    Parsed =>
        /\ Len(result) = WordCount(user_input)
        /\ \A j \in 1 .. Len(result) :
               LET w == Word(user_input, j)
                   inside == {n \in 1 .. Len(w) : /\ OpenQuoteAfter(w, n - 1) # None
                                                  /\ OpenQuoteAfter(w, n) # None}
               IN  inside # {} =>
                       \E a \in 1 .. Len(w) : \E b \in a .. Len(w) :
                           /\ result[j] = SubSeq(w, a, b)
                           /\ inside \subseteq a .. b

C9_OtherQuoteIsOrdinary == []C9_InsideRunKept /\ [][C9_InsideRunStep]_vars

C9_Witness ==
    /\ Parsed
    /\ user_input = <<SQUOTE, DQUOTE, SPACE, SQUOTE>>
    /\ result = << <<DQUOTE, SPACE>> >>

\* C10: a line whose scan ends inside a quoted run yields no tokens and one
\* report, whose column is the index of the quote character that opened the
\* run still open; the loop goes on to the next line without a lookup or a
\* handler call and with the session as it was.
C10_UnterminatedQuote ==
    /\ (pc \in {"dispatch", "call", "opening", "exited", "crashed"}) => Balanced(user_input)
    /\ (pc = "loop" /\ ~Balanced(user_input)) =>
           /\ out = <<SyntaxError(UnmatchedQuote(user_input))>>
           /\ result = <<>>
           /\ instruction = "nullopt"
           /\ args = <<>>
           /\ database = prev_database
    /\ (pc = "loop" /\ \E r \in Reports : r.kind = "syntax") => ~Balanced(user_input)

C10_Witness ==
    /\ pc = "loop"
    /\ user_input = <<SQUOTE, SQUOTE, DQUOTE>>
    /\ out = <<SyntaxError(2)>>
    /\ database # 0

\* C11: on a line with balanced quotes the number of tokens is the number of
\* unquoted space characters plus one: every unquoted space ends a token, also
\* an empty one (consecutive, leading or trailing spaces), the trailing span is
\* always a token, and a tab ends none.
C11_TokenCount ==
    /\ Parsed =>
           /\ Len(result) = Cardinality({k \in 1 .. Len(user_input) :
                                  user_input[k] = SPACE /\ OpenQuoteAfter(user_input, k - 1) = None}) + 1
           /\ \A j \in 1 .. Len(result) :
                  (WordStart(user_input, j) = WordEnd(user_input, j)) => result[j] = <<>>
    /\ (pc = "scan" /\ Balanced(SubSeq(user_input, 1, i))) =>
           Len(result) = Cardinality(Boundaries(SubSeq(user_input, 1, i)))

C11_Witness ==
    /\ Parsed
    /\ user_input = <<SPACE, TAB, SPACE, SPACE>>
    /\ result = << <<>>, <<TAB>>, <<>>, <<>> >>

\* the seven command literals
CommandLiterals ==
    {<<"h", "e", "l", "p">>, <<"e", "x", "i", "t">>, <<"o", "p", "e", "n">>,
     <<"c", "l", "o", "s", "e">>, <<"r", "e", "a", "d">>, <<"w", "r", "i", "t", "e">>,
     <<"d", "u", "m", "p">>}

\* C12: a line whose first token is not exactly one of the seven literals (an
\* empty token after a leading space, another case, a longer or shorter word)
\* gets the one report "Unknown instruction '<token>' !"; no handler is
\* entered and the session is as it was.
C12_UnknownInstruction ==
    (pc \notin {"prompt", "scan", "dispatch"} /\ result # <<>> /\ result[1] \notin CommandLiterals) =>
        /\ pc = "loop"
        /\ out = <<UnknownInstruction(result[1])>>
        /\ instruction = "nullopt"
        /\ args = <<>>
        /\ database = prev_database
        /\ pending = NoPending

C12_Witness ==
    /\ pc = "loop"
    /\ user_input = <<SPACE, "a">>
    /\ result = << <<>>, <<"a">> >>
    /\ out = <<UnknownInstruction(<<>>)>>
    /\ database # 0

----------------------------------------------------------------------------
(* The claims about how the process ends and goes on *)

\* C13 (under SpecInt): whenever the interrupt arrives, the process ends with
\* every handle the collaborator made released (none is still live) and none
\* released twice (the slot never holds a handle that is no longer live).
C13_InterruptReleasesAll ==
    /\ pc = "exited" => (database = 0 /\ live = {})
    /\ database # 0 => database \in live

\* C14: once exit is dispatched, with or without an open handle, the only step
\* is the one that releases the handle and ends the process; in the ended
\* process nothing is read, tokenized, dispatched or run.
C14_ExitTerminates ==
    /\ Calling("exit") => /\ ENABLED ExitFunctor
                          /\ ~ENABLED (Next /\ pc' # "exited")
    /\ pc = "exited" => /\ instruction = "exit"
                        /\ database = 0
                        /\ live = {}
                        /\ ~ENABLED Next

C14_Witness ==
    /\ pc = "exited"
    /\ instruction = "exit"
    /\ prev_database # 0
    /\ live = {}

\* C15 (under SpecFair, no interrupt): the process ends only by a dispatched
\* exit and never crashes; at the prompt a next line is always accepted; and
\* from every other point of the loop (an unbalanced line, an unknown word, a
\* refused or failed command) the loop comes back to the prompt, unless exit
\* ends it.
C15_Safe ==
    /\ pc # "crashed"
    /\ pc = "exited" => instruction = "exit"
    /\ pc = "prompt" => ENABLED ReadLine /\ ENABLED ReadEmptyLine

C15_Resilient ==
    /\ []C15_Safe
    /\ (pc \notin {"prompt", "exited"}) ~> (pc = "prompt" \/ pc = "exited")

C15_Witness ==
    /\ pc = "prompt"
    /\ database # 0
    /\ disk # {}

----------------------------------------------------------------------------
(* The claims about the handlers *)

\* C16: with a database open, a read of a key that a write line answered OK
\* gave a value to, whatever help, read, dump lines and writes to other keys
\* came in between, reports exactly the value token of the last such write
\* line; the only other answer is the collaborator's own failure of the read.
C16_RoundTrip ==
    (pc = "loop" /\ instruction = "read" /\ prev_database # 0 /\ Len(result) = 2) =>
        \A e \in written :
            (e[1] = dbpath /\ e[2] = result[2]) =>
                \/ out = <<Value(e[3])>>
                \/ out = <<BackendError("read", <<result[2]>>, "IO error")>>

C16_Witness ==
    /\ pc = "loop"
    /\ instruction = "read"
    /\ result = << <<"r", "e", "a", "d">>, <<"k">> >>
    /\ out = <<Value(<<"v">>)>>
    /\ \E e \in written : e[1] = dbpath /\ e[2] = <<"v">>

\* C17: every run of the handler of open, read or write prints exactly one
\* outcome: the success output or one backend failure, never both.
C17_OneOutcome ==
    \A inst \in {"open", "read", "write"} :
        (/\ pc = "loop"
         /\ instruction = inst
         /\ PreconditionPassed(inst)
         /\ Len(args) = FixedArity(inst))
        => /\ Len(out) = 1
           /\ out[1].kind \in {"OK", "value", "error"}

\* C18: the handler of open, read or write is entered with exactly 1, 1 and 2
\* arguments, so that args[0] and args[1] exist when it reads them.
C18_HandlerArity ==
    /\ pc # "crashed"
    /\ \A inst \in {"open", "read", "write"} :
           (pc \in {"call", "opening"} /\ instruction = inst) =>
               Len(args) = (IF inst = "write" THEN 2 ELSE 1)

C18_Witness ==
    /\ pc = "call"
    /\ instruction = "write"
    /\ args = << <<"k">>, <<"v">> >>

\* C19: the session starts closed; the slot goes from empty to bound only in
\* an open that the collaborator answered OK; help, read, write and dump,
\* failed or not, and every line stopped by the tokenizer or a gate leave the
\* slot and the live handles as they are.
C19_Step ==
    /\ (database = 0 /\ database' # 0) =>
           /\ pc = "opening"
           /\ instruction = "open"
           /\ pending.status = "OK"
           /\ out' = Append(out, Ok)
    /\ (pc = "call" /\ instruction \in {"help", "read", "write", "dump"}) =>
           /\ database' = database
           /\ dbpath' = dbpath
           /\ live' = live
    /\ (pc \in {"prompt", "scan", "dispatch", "loop"}) =>
           /\ database' = database
           /\ dbpath' = dbpath
           /\ live' = live

C19_SessionFrame == (database = 0 /\ live = {}) /\ [][C19_Step]_vars

C19_Witness ==
    /\ pc = "loop"
    /\ instruction = "write"
    /\ out = <<BackendError("write", << <<"k">>, <<"v">> >>, "IO error")>>
    /\ database # 0
    /\ database = prev_database

\* C20: whenever the quote-stripping flag is set the current word span
\* [pos, i) has at least 2 characters, so that length - 2 does not wrap and
\* the slice (pos + 1, length - 2) is inside the line; the flag is clear at
\* the start of every word.
C20_StripNeverWraps ==
    /\ (pc = "scan" /\ erease_quotes) => /\ i - pos >= 2
                                         /\ (pos + 1) + (i - pos - 2) <= Len(user_input)
    /\ (pc = "scan" /\ i = pos) => ~erease_quotes
    /\ \A j \in 1 .. Len(result) : /\ result[j] # OutOfRange
                                   /\ Len(result[j]) <= Len(user_input)

C20_Witness ==
    /\ Parsed
    /\ user_input = <<"a", SPACE, SQUOTE, SQUOTE>>
    /\ result = << <<"a">>, <<>> >>
    /\ erease_quotes

====
